---- MODULE Spec2Model ----
(***************************************************************************)
(* Lease lifecycle of terraform-provider-blobleas: the blob_lease resource *)
(* handlers (Create, Read, Update, Delete, ImportState) and the plan       *)
(* modifier over AzureBlobLeaseClient, the client's renewal loop, and the  *)
(* remote blob store they call.  One blob identity is modelled in a run.   *)
(* Every remote call of a handler is one step, so other parties (a second  *)
(* controller, the environment) may act between two calls of a handler.    *)
(* Spec is one controller among other clients, SpecDuo two controllers on  *)
(* the same blob, SpecLoop a controller's Create followed by the renewal   *)
(* loop, SpecLoopFair the same with the loop scheduled fairly.             *)
(***************************************************************************)
EXTENDS Integers, Sequences, FiniteSets, TLC

(* ------------------------------ bounds --------------------------------- *)
\* number of handler invocations the orchestrator makes in one run
MaxOps == 4
\* number of actions other parties (environment) take in one run
MaxEnv == 3
\* number of handler invocations in one run of two controllers
MaxOpsDuo == 4
\* number of handler invocations before the renewal loop is started
MaxOpsLoop == 1
\* number of actions of other parties in one run of the renewal loop
MaxEnvLoop == 3
\* number of ticks of the renewal ticker in one run
MaxTicks == 2

(* --------------------------- program constants -------------------------- *)
InfiniteDuration == -1
FiniteDuration == 15

DefaultContent == "managed by terraform-provider-blobleas"
Leased == "leased"
Available == "available"

\* the empty lease id ("") ; tokens generated by uuid.New() are 1, 2, ...
NoToken == 0

Ctl == {1, 2}
\* the controllers that act in the single-controller specification
SoloCtl == {1}

\* Strings the code scans are sequences of characters.  The identities of a
\* run: a plain blob name, and one that holds "404" and a "/".
PlainIdentity == [account |-> <<"a">>, container |-> <<"c">>, name |-> <<"b">>]

Identities ==
  {PlainIdentity,
   [account |-> <<"a">>, container |-> <<"c">>, name |-> <<"4", "0", "4", "/", "b">>]}

\* values of the optional "content" argument; "null" is the unset value
ConfigContents == {"null", "x"}

VARIABLES
  container,  \* TRUE when the container exists in the store
  blob,       \* the remote blob: payload, etag and lease
  etagCtr,    \* number of etags the store has issued
  nextUUID,   \* the next value uuid.New() returns
  netDown,    \* TRUE while remote calls fail with a transient error
  lapsed,     \* tokens whose lease has ended (released, broken, expired)
  tfstate,    \* per controller: the Terraform state of the resource
  pc,         \* per controller: position inside the running handler
  loc,        \* per controller: locals of the running handler
  last,       \* per controller: outcome of the last finished handler
  quiet,      \* per controller: nobody else acted since its last handler returned
  ident,      \* the identity (account, container, name) of the modelled blob
  renewal,    \* the call of StartLeaseRenewal: its position, locals and result
  opsLeft,
  envLeft

vars == <<container, blob, etagCtr, nextUUID, netDown, lapsed, tfstate, pc, loc,
          last, quiet, ident, renewal, opsLeft, envLeft>>

store == <<container, blob>>

\* fmt.Sprintf("%s/%s/%s", account, container, name)
IDOf(id) == id.account \o <<"/">> \o id.container \o <<"/">> \o id.name

\* blobClientRef.URL(): the service URL, the container and the blob name
URLOf(id) ==
  <<"https://">> \o id.account \o <<".blob.core.windows.net/">>
    \o id.container \o <<"/">> \o id.name

TheID == IDOf(ident)
TheURL == URLOf(ident)

\* identifiers handed to import: the id of each identity, one with a doubled
\* '/', one with two segments
ImportIDs ==
  {IDOf(i) : i \in Identities}
    \cup {<<"a", "/", "/", "c", "/", "b">>, <<"a", "/", "c">>}

\* lease_duration of the configuration: 0 when it is not set
ConfigDurations == {0, FiniteDuration}

(* ------------------------------ records --------------------------------- *)
NoBlob ==
  [exists |-> FALSE, content |-> "", etag |-> 0, leaseState |-> Available,
   leaseId |-> NoToken, leaseDur |-> InfiniteDuration, via |-> "none"]

NoRecord ==
  [present |-> FALSE, id |-> <<>>, storage_account |-> <<>>, container_name |-> <<>>,
   blob_name |-> <<>>, content |-> "", lease_id |-> NoToken,
   blob_url |-> <<>>, etag |-> 0, lease_state |-> ""]

IdleLoc ==
  [op |-> "none", seq |-> 0, leaseID |-> NoToken, content |-> "",
   req |-> NoRecord, replay |-> FALSE, importID |-> <<>>,
   dur |-> 0, cfgDur |-> 0, acqDur |-> 0, planUnknown |-> FALSE,
   planContent |-> "",
   seenState |-> "", seenEtag |-> 0, propsState |-> "", propsEtag |-> 0,
   upEtag |-> 0, renew |-> "none", held |-> FALSE, fellBack |-> FALSE,
   relErr |-> "none", calls |-> <<>>, uuids |-> 0,
   prevOp |-> "none", prevOk |-> FALSE,
   ok |-> FALSE, gone |-> FALSE, err |-> "none", undisturbed |-> FALSE]

\* StartLeaseRenewal before it is called
NoRenewal ==
  [pc |-> "off", leaseID |-> NoToken, ticks |-> 0, cancelled |-> FALSE,
   result |-> "none", err |-> "none", propsState |-> "", held |-> FALSE,
   failed |-> FALSE, reacquired |-> FALSE, cfgDur |-> 0, acqDur |-> 0]

(* --------------------------- the remote store --------------------------- *)
\* A lease that blocks writes and deletes made without its lease id.
LeaseActive(b) == b.exists /\ b.leaseState \in {Leased, "breaking"}

\* GetProperties: the error of the call
StoreGetPropertiesErr(b) ==
  IF netDown THEN "Transient"
  ELSE IF ~b.exists THEN "BlobNotFound"
  ELSE "none"

\* Put Blob without a lease id
StoreUploadErr(b) ==
  IF netDown THEN "Transient"
  ELSE IF ~container THEN "ContainerNotFound"
  ELSE IF LeaseActive(b) THEN "LeaseIdMissing"
  ELSE "none"

StoreUpload(b, content, etag) ==
  [exists |-> TRUE, content |-> content, etag |-> etag, leaseState |-> Available,
   leaseId |-> NoToken, leaseDur |-> InfiniteDuration, via |-> "none"]

\* Acquire Lease with a proposed lease id
StoreAcquireErr(b, token) ==
  IF netDown THEN "Transient"
  ELSE IF ~b.exists THEN "BlobNotFound"
  ELSE IF token = NoToken THEN "InvalidHeaderValue"
  ELSE IF b.leaseState = Leased /\ b.leaseId # token THEN "LeaseAlreadyPresent"
  ELSE IF b.leaseState = "breaking" THEN "LeaseIsBreakingAndCannotBeAcquired"
  ELSE "none"

StoreAcquire(b, token, dur, who) ==
  [b EXCEPT !.leaseState = Leased, !.leaseId = token, !.leaseDur = dur, !.via = who]

\* Renew Lease
StoreRenewErr(b, token) ==
  IF netDown THEN "Transient"
  ELSE IF ~b.exists THEN "BlobNotFound"
  ELSE IF b.leaseState = Available THEN "LeaseNotPresentWithLeaseOperation"
  ELSE IF b.leaseId # token THEN "LeaseIdMismatchWithLeaseOperation"
  ELSE IF b.leaseState = "breaking" THEN "LeaseIsBreakingAndCannotBeChanged"
  ELSE IF b.leaseState # Leased THEN "LeaseIsBrokenAndCannotBeRenewed"
  ELSE "none"

\* Release Lease: the kind of failure; the code string is chosen by the caller
StoreReleaseKind(b, token) ==
  IF netDown THEN "Transient"
  ELSE IF ~b.exists THEN "BlobNotFound"
  ELSE IF token = NoToken THEN "InvalidHeaderValue"
  ELSE IF b.leaseState = Available THEN "LeaseNotPresent"
  ELSE IF b.leaseId # token THEN "LeaseIdMismatch"
  ELSE "none"

\* The error codes the store may use for a failure kind of Release Lease.
ReleaseErrCodes(kind) ==
  IF kind \in {"LeaseNotPresent", "LeaseIdMismatch"}
  THEN {kind \o "WithBlobOperation", kind \o "WithLeaseOperation"}
  ELSE {kind}

StoreRelease(b) ==
  [b EXCEPT !.leaseState = Available, !.leaseId = NoToken,
            !.leaseDur = InfiniteDuration, !.via = "none"]

\* Delete Blob without a lease id
StoreDeleteErr(b) ==
  IF netDown THEN "Transient"
  ELSE IF ~b.exists THEN "BlobNotFound"
  ELSE IF LeaseActive(b) THEN "LeaseIdMissing"
  ELSE "none"

\* the token whose lease ends when b is replaced by b2
LapsedBy(b, b2) ==
  IF b.exists /\ b.leaseState = Leased
     /\ ~(b2.exists /\ b2.leaseState = Leased /\ b2.leaseId = b.leaseId)
  THEN {b.leaseId}
  ELSE {}

(* ------------------------- handler bookkeeping -------------------------- *)
\* quiet after a step of controller c
QuietAfter(c, mutating, completing) ==
  [d \in Ctl |->
     IF d = c THEN (IF completing THEN ~netDown ELSE quiet[d])
     ELSE (IF mutating THEN FALSE ELSE quiet[d])]

\* locals of a handler that starts now
StartLoc(c, op, req) ==
  [IdleLoc EXCEPT !.op = op, !.seq = MaxOps - opsLeft + 1, !.req = req,
                  !.prevOp = last[c].op, !.prevOk = last[c].ok]

\* the handler of c returns: l are its final locals, rec the state it leaves
Return(c, l, ok, err, rec, mutating) ==
  /\ last' = [last EXCEPT ![c] = [l EXCEPT !.ok = ok, !.err = err,
                                           !.undisturbed = quiet[c]]]
  /\ loc' = [loc EXCEPT ![c] = IdleLoc]
  /\ pc' = [pc EXCEPT ![c] = "idle"]
  /\ tfstate' = [tfstate EXCEPT ![c] = rec]
  /\ quiet' = QuietAfter(c, mutating, TRUE)
  /\ UNCHANGED <<ident, renewal>>

\* the handler of c goes on to its next remote call
Goto(c, l, next, mutating) ==
  /\ loc' = [loc EXCEPT ![c] = l]
  /\ pc' = [pc EXCEPT ![c] = next]
  /\ quiet' = QuietAfter(c, mutating, FALSE)
  /\ UNCHANGED <<tfstate, last, ident, renewal>>

\* the store's blob becomes b
SetBlob(b) ==
  /\ blob' = b
  /\ lapsed' = lapsed \cup LapsedBy(blob, b)

Called(l, name) == [l EXCEPT !.calls = Append(@, name)]

(* ---------------------------- plan modifier ----------------------------- *)
\* mutant of PlanModifyString: the planned lease_state is never touched
PlanModifyStringKeep(state) == "keep"

\* mutant of PlanModifyString: only a released lease is marked
PlanModifyStringOnAvailable(state) ==
  IF state.present /\ state.lease_state = Available THEN "unknown" ELSE "keep"

\* PlanModifyString on lease_state: "unknown" when it marks the planned value
\* unknown, which makes Terraform call Update
PlanModifyString(state) ==
  IF ~state.present THEN "keep"
  ELSE IF state.lease_state # Leased THEN "unknown"
  ELSE "keep"

(* ------------------------------- Create --------------------------------- *)
\* content := default unless the plan sets it
CreateContent(cfg) == IF cfg = "null" THEN DefaultContent ELSE cfg

\* mutant of CreateData: the lease id of the result is not saved
CreateDataNoLeaseID(l) ==
  [present |-> TRUE, id |-> TheID, storage_account |-> ident.account,
   container_name |-> ident.container, blob_name |-> ident.name,
   content |-> l.content, lease_id |-> NoToken,
   blob_url |-> TheURL, etag |-> l.upEtag, lease_state |-> Leased]

\* the state Create saves from the result of CreateBlobWithLease
CreateData(l) ==
  [present |-> TRUE, id |-> TheID, storage_account |-> ident.account,
   container_name |-> ident.container, blob_name |-> ident.name,
   content |-> l.content, lease_id |-> l.leaseID,
   blob_url |-> TheURL, etag |-> l.upEtag, lease_state |-> Leased]

\* mutant of CreateErrorData: the state is saved although Create failed
CreateErrorDataPartial(c) == CreateData(loc[c])

\* the state left when Create reports an error: nothing is saved
CreateErrorData(c) == tfstate[c]

\* mutant of LeaseDurationOf: every lease is acquired as an infinite one
LeaseDurationInfinite(configured) == InfiniteDuration

\* the lease duration CreateBlobWithLease and RenewBlobLease acquire with
LeaseDurationOf(configured) == IF configured = 0 THEN InfiniteDuration ELSE configured

\* config.LeaseDuration in Create for the lease_duration of the
\* configuration: the field is not set, whatever is configured
CreateLeaseDuration(dur) == 0

\* Create up to its call of CreateBlobWithLease; cfg is the configured
\* content, dur the configured lease_duration (0: none)
CreateStart(c, cfg, dur) ==
  /\ pc[c] = "idle" /\ opsLeft > 0
  /\ ~tfstate[c].present
  /\ opsLeft' = opsLeft - 1
  /\ nextUUID' = nextUUID + 1
  /\ Goto(c, [StartLoc(c, "Create", NoRecord) EXCEPT
                !.content = CreateContent(cfg), !.leaseID = nextUUID, !.uuids = 1,
                !.dur = dur, !.cfgDur = CreateLeaseDuration(dur),
                !.planUnknown = (PlanModifyString(tfstate[c]) = "unknown")],
          "cbl_container", FALSE)
  /\ UNCHANGED <<container, blob, etagCtr, netDown, lapsed, envLeft>>

(* ------------------------- CreateBlobWithLease -------------------------- *)
\* req.Plan: the prior state with the configured content
UpdatePlan(state, planContent) == [state EXCEPT !.content = planContent]

\* the state Update saves from the result of RenewBlobLease or CreateBlobWithLease
UpdateRenewedData(state, leaseID, etag) ==
  [state EXCEPT !.lease_id = leaseID, !.etag = etag, !.lease_state = Leased,
                !.blob_url = TheURL]

\* CreateBlobWithLease returned an error to the handler that called it
CblFail(c, l, err) ==
  IF l.op = "Create"
  THEN Return(c, l, FALSE, err, CreateErrorData(c), FALSE)
  ELSE Return(c, l, FALSE, err, tfstate[c], FALSE)

\* CreateBlobWithLease returned its result to the handler that called it
CblSucceed(c, l) ==
  IF l.op = "Create"
  THEN Return(c, l, TRUE, "none", CreateData(l), TRUE)
  ELSE IF l.op = "Update"
  THEN Return(c, l, TRUE, "none",
              UpdateRenewedData(UpdatePlan(tfstate[c], l.planContent), l.leaseID,
                                l.upEtag), TRUE)
  ELSE Return(c, l, TRUE, "none", tfstate[c], TRUE)

\* CreateBlobWithLease called by a user of the client other than the
\* resource, with a config of its own: dur is config.LeaseDuration
CreateBlobWithLease(c, dur) ==
  /\ pc[c] = "idle" /\ opsLeft > 0
  /\ ~tfstate[c].present
  /\ opsLeft' = opsLeft - 1
  /\ nextUUID' = nextUUID + 1
  /\ Goto(c, [StartLoc(c, "CreateBlobWithLease", tfstate[c]) EXCEPT
                !.content = DefaultContent, !.leaseID = nextUUID, !.uuids = 1,
                !.dur = dur, !.cfgDur = dur],
          "cbl_container", FALSE)
  /\ UNCHANGED <<container, blob, etagCtr, netDown, lapsed, envLeft>>

\* containerClient.Create, tolerating ContainerAlreadyExists
CblContainer(c) ==
  /\ pc[c] = "cbl_container"
  /\ LET l == Called(loc[c], "CreateContainer") IN
       IF netDown
       THEN /\ CblFail(c, l, "Transient")
            /\ UNCHANGED container
       ELSE /\ container' = TRUE
            /\ Goto(c, l, "cbl_upload", ~container)
  /\ UNCHANGED <<blob, etagCtr, nextUUID, netDown, lapsed, opsLeft, envLeft>>

\* mutant of CblUpload: the upload breaks a lease that stands in its way
CblUploadForce(c) ==
  /\ pc[c] = "cbl_upload"
  /\ LET l == Called(loc[c], "UploadBuffer")
         err == IF netDown THEN "Transient"
                ELSE IF ~container THEN "ContainerNotFound" ELSE "none" IN
       IF err # "none"
       THEN /\ CblFail(c, l, err)
            /\ UNCHANGED <<blob, etagCtr, lapsed>>
       ELSE /\ SetBlob(StoreUpload(blob, l.content, etagCtr + 1))
            /\ etagCtr' = etagCtr + 1
            /\ Goto(c, [l EXCEPT !.upEtag = etagCtr + 1], "cbl_acquire", TRUE)
  /\ UNCHANGED <<container, nextUUID, netDown, opsLeft, envLeft>>

\* blobClientRef.UploadBuffer
CblUpload(c) ==
  /\ pc[c] = "cbl_upload"
  /\ LET l == Called(loc[c], "UploadBuffer")
         err == StoreUploadErr(blob) IN
       IF err # "none"
       THEN /\ CblFail(c, l, err)
            /\ UNCHANGED <<blob, etagCtr, lapsed>>
       ELSE /\ SetBlob(StoreUpload(blob, l.content, etagCtr + 1))
            /\ etagCtr' = etagCtr + 1
            /\ Goto(c, [l EXCEPT !.upEtag = etagCtr + 1], "cbl_acquire", TRUE)
  /\ UNCHANGED <<container, nextUUID, netDown, opsLeft, envLeft>>

\* mutant of CblAcquire: a lease that is already present is passed over,
\* as an existing container is
CblAcquireLenient(c) ==
  /\ pc[c] = "cbl_acquire"
  /\ LET l == Called(loc[c], "AcquireLease")
         err == StoreAcquireErr(blob, l.leaseID) IN
       IF err = "LeaseAlreadyPresent"
       THEN /\ CblSucceed(c, l)
            /\ UNCHANGED <<blob, lapsed>>
       ELSE IF err # "none"
       THEN /\ CblFail(c, l, err)
            /\ UNCHANGED <<blob, lapsed>>
       ELSE /\ SetBlob(StoreAcquire(blob, l.leaseID, LeaseDurationOf(l.cfgDur), "create"))
            /\ CblSucceed(c, [l EXCEPT !.acqDur = LeaseDurationOf(l.cfgDur)])
  /\ UNCHANGED <<container, etagCtr, nextUUID, netDown, opsLeft, envLeft>>

\* leaseClient.AcquireLease with config.LeaseID
CblAcquire(c) ==
  /\ pc[c] = "cbl_acquire"
  /\ LET l == Called(loc[c], "AcquireLease")
         err == StoreAcquireErr(blob, l.leaseID) IN
       IF err # "none"
       THEN /\ CblFail(c, l, err)
            /\ UNCHANGED <<blob, lapsed>>
       ELSE /\ SetBlob(StoreAcquire(blob, l.leaseID, LeaseDurationOf(l.cfgDur), "create"))
            /\ CblSucceed(c, [l EXCEPT !.acqDur = LeaseDurationOf(l.cfgDur)])
  /\ UNCHANGED <<container, etagCtr, nextUUID, netDown, opsLeft, envLeft>>

(* -------------------------------- Read ---------------------------------- *)
\* the HTTP status the store answers with for an error code
StatusOf(err) ==
  IF err = "Transient" THEN "503"
  ELSE IF err \in {"BlobNotFound", "ContainerNotFound"} THEN "404"
  ELSE IF err = "InvalidHeaderValue" THEN "400"
  ELSE IF err = "LeaseIdMissing" THEN "412"
  ELSE "409"

\* err.Error() of a failed call on the blob: the request URL, the status and
\* the error code
ErrorText(url, err) ==
  url \o <<"RESPONSE">> \o <<StatusOf(err)>> \o <<"ERROR CODE">> \o <<err>>

\* strings.Contains(text, "404")
Contains404(text) ==
  \/ \E i \in 1..Len(text) : text[i] = "404"
  \/ \E i \in 1..(Len(text) - 2) :
        text[i] = "4" /\ text[i + 1] = "0" /\ text[i + 2] = "4"

\* strings.Contains(text, "BlobNotFound")
ContainsBlobNotFound(text) == \E i \in 1..Len(text) : text[i] = "BlobNotFound"

\* BlobExists on the blob of identity id: what it returns for the error of
\* its GetProperties call
BlobExistsOf(id, err) ==
  IF err = "none" THEN "true"
  ELSE IF \/ Contains404(ErrorText(URLOf(id), err))
          \/ ContainsBlobNotFound(ErrorText(URLOf(id), err))
  THEN "false"
  ELSE "error"

\* BlobExists on the blob of the resource
BlobExists(err) == BlobExistsOf(ident, err)

\* mutant of ReadData: the lease id is overwritten with the (absent) one of
\* the GetBlobLeaseState result
ReadDataDropToken(data, etag, leaseState) ==
  [data EXCEPT !.etag = etag, !.lease_state = leaseState, !.lease_id = NoToken]

\* mutant of ReadData: the content is cleared as ImportState does
ReadDataLikeImport(data, etag, leaseState) ==
  [data EXCEPT !.etag = etag, !.lease_state = leaseState, !.content = ""]

\* the attributes Read refreshes from GetBlobLeaseState
ReadData(data, etag, leaseState) ==
  [data EXCEPT !.etag = etag, !.lease_state = leaseState]

\* Read up to and including BlobExists
ReadStart(c) ==
  /\ pc[c] = "idle" /\ opsLeft > 0
  /\ tfstate[c].present
  /\ opsLeft' = opsLeft - 1
  /\ LET l == Called(StartLoc(c, "Read", tfstate[c]), "GetProperties")
         exists == BlobExists(StoreGetPropertiesErr(blob)) IN
       CASE exists = "error" ->
              Return(c, l, FALSE, StoreGetPropertiesErr(blob), tfstate[c], FALSE)
         [] exists = "false" ->
              Return(c, [l EXCEPT !.gone = TRUE], TRUE, "none", NoRecord, FALSE)
         [] exists = "true" ->
              Goto(c, l, "read_state", FALSE)
  /\ UNCHANGED <<container, blob, etagCtr, nextUUID, netDown, lapsed, envLeft>>

\* mutant of ReadState: Read re-acquires a lease it finds not active
ReadStateRepair(c) ==
  /\ pc[c] = "read_state"
  /\ LET l == Called(loc[c], "GetProperties")
         err == StoreGetPropertiesErr(blob)
         repair == blob.leaseState # Leased
                   /\ StoreAcquireErr(blob, tfstate[c].lease_id) = "none" IN
       IF err # "none"
       THEN /\ Return(c, l, FALSE, err, tfstate[c], FALSE)
            /\ UNCHANGED <<blob, lapsed>>
       ELSE /\ SetBlob(IF repair
                       THEN StoreAcquire(blob, tfstate[c].lease_id, LeaseDurationOf(0), "renew")
                       ELSE blob)
            /\ Return(c, [l EXCEPT !.seenState = blob.leaseState, !.seenEtag = blob.etag],
                      TRUE, "none", ReadData(tfstate[c], blob.etag, blob.leaseState), repair)
  /\ UNCHANGED <<container, etagCtr, nextUUID, netDown, opsLeft, envLeft>>

\* Read from GetBlobLeaseState to its end
ReadState(c) ==
  /\ pc[c] = "read_state"
  /\ LET l == Called(loc[c], "GetProperties")
         err == StoreGetPropertiesErr(blob) IN
       IF err # "none"
       THEN Return(c, l, FALSE, err, tfstate[c], FALSE)
       ELSE Return(c, [l EXCEPT !.seenState = blob.leaseState, !.seenEtag = blob.etag],
                   TRUE, "none", ReadData(tfstate[c], blob.etag, blob.leaseState), FALSE)
  /\ UNCHANGED <<container, blob, etagCtr, nextUUID, netDown, lapsed, opsLeft, envLeft>>

(* ------------------------------- Update --------------------------------- *)
\* mutant of NeedsRenew: the lease state is not looked at
NeedsRenewAlways(leaseState) == TRUE

\* "If lease is not active, try to renew or acquire a new lease"
NeedsRenew(leaseState) == leaseState # Leased

\* the state Update saves when the lease is still active
UpdateLeasedData(data, state, etag, leaseState) ==
  [data EXCEPT !.etag = etag, !.lease_state = leaseState, !.blob_url = TheURL,
               !.lease_id = state.lease_id]

\* mutant of FallbackLeaseID: the stored lease id is used again
FallbackLeaseIDReuse(stateLeaseID, fresh) == stateLeaseID

\* the lease id Update acquires with after a failed renewal
FallbackLeaseID(stateLeaseID, fresh) == fresh

\* mutant of FallbackContent: the fallback always writes the default content
FallbackContentDefault(planContent) == DefaultContent

\* the content Update uploads after a failed renewal
FallbackContent(planContent) ==
  IF planContent = "null" THEN DefaultContent ELSE planContent

\* Update up to and including the branch on the lease state; Terraform calls
\* it when the configured content differs from the state or the plan modifier
\* marked lease_state
UpdateStart(c, planContent) ==
  /\ pc[c] = "idle" /\ opsLeft > 0
  /\ tfstate[c].present
  /\ planContent # tfstate[c].content \/ PlanModifyString(tfstate[c]) = "unknown"
  /\ opsLeft' = opsLeft - 1
  /\ LET l0 == Called([StartLoc(c, "Update", tfstate[c]) EXCEPT
                        !.planUnknown = (PlanModifyString(tfstate[c]) = "unknown"),
                        !.planContent = planContent],
                      "GetProperties")
         err == StoreGetPropertiesErr(blob)
         l == [l0 EXCEPT !.seenState = blob.leaseState, !.seenEtag = blob.etag] IN
       IF err # "none"
       THEN Return(c, l0, FALSE, err, tfstate[c], FALSE)
       ELSE IF NeedsRenew(l.seenState)
       THEN Goto(c, [l EXCEPT !.leaseID = tfstate[c].lease_id], "renew_props", FALSE)
       ELSE Return(c, l, TRUE, "none",
                   UpdateLeasedData(UpdatePlan(tfstate[c], planContent), tfstate[c],
                                    l.seenEtag, l.seenState),
                   FALSE)
  /\ UNCHANGED <<container, blob, etagCtr, nextUUID, netDown, lapsed, envLeft>>

(* ---------------------------- RenewBlobLease ---------------------------- *)
\* mutant of RenewCall: RenewBlobLease only ever renews
RenewCallAlwaysRenew(propsState) == "renew_renew"

\* the lease call RenewBlobLease makes for the lease state GetProperties reports
RenewCall(propsState) ==
  IF propsState # Leased THEN "renew_acquire" ELSE "renew_renew"

\* mutant of RenewFail: Update calls RenewBlobLease a second time before it
\* falls back
RenewFailRetry(c, l, err) ==
  IF Len(l.calls) < 4
  THEN /\ Goto(c, [l EXCEPT !.err = err], "renew_props", FALSE)
       /\ UNCHANGED nextUUID
  ELSE /\ nextUUID' = nextUUID + 1
       /\ Goto(c, [l EXCEPT !.renew = "failed", !.fellBack = TRUE, !.err = err,
                            !.leaseID = FallbackLeaseID(tfstate[c].lease_id, nextUUID),
                            !.content = FallbackContent(l.planContent),
                            !.uuids = @ + 1],
               "cbl_container", FALSE)

\* RenewBlobLease returned an error: Update acquires a new lease
RenewFail(c, l, err) ==
  /\ nextUUID' = nextUUID + 1
  /\ Goto(c, [l EXCEPT !.renew = "failed", !.fellBack = TRUE, !.err = err,
                       !.leaseID = FallbackLeaseID(tfstate[c].lease_id, nextUUID),
                       !.content = FallbackContent(l.planContent),
                       !.uuids = @ + 1],
          "cbl_container", FALSE)

\* RenewBlobLease returned its result to Update
RenewSucceed(c, l, how, mutating) ==
  /\ Return(c, [l EXCEPT !.renew = how], TRUE, "none",
            UpdateRenewedData(UpdatePlan(tfstate[c], l.planContent), l.leaseID,
                              l.propsEtag), mutating)
  /\ UNCHANGED nextUUID

\* blobClientRef.GetProperties
RenewProps(c) ==
  /\ pc[c] = "renew_props"
  /\ LET l == Called(loc[c], "GetProperties")
         err == StoreGetPropertiesErr(blob) IN
       IF err # "none"
       THEN RenewFail(c, l, err)
       ELSE /\ Goto(c, [l EXCEPT !.propsState = blob.leaseState,
                                 !.propsEtag = blob.etag,
                                 !.held = (blob.leaseState = Leased
                                           /\ blob.leaseId = l.leaseID)],
                    RenewCall(blob.leaseState), FALSE)
            /\ UNCHANGED nextUUID
  /\ UNCHANGED <<container, blob, etagCtr, netDown, lapsed, opsLeft, envLeft>>

\* "Lease is broken/expired, try to acquire a new one"
RenewAcquire(c) ==
  /\ pc[c] = "renew_acquire"
  /\ LET l == Called(loc[c], "AcquireLease")
         err == StoreAcquireErr(blob, l.leaseID) IN
       IF err # "none"
       THEN /\ RenewFail(c, l, err)
            /\ UNCHANGED <<blob, lapsed>>
       ELSE /\ SetBlob(StoreAcquire(blob, l.leaseID, LeaseDurationOf(0), "renew"))
            /\ RenewSucceed(c, l, "acquired", TRUE)
  /\ UNCHANGED <<container, etagCtr, netDown, opsLeft, envLeft>>

\* "Renew existing lease"
RenewRenew(c) ==
  /\ pc[c] = "renew_renew"
  /\ LET l == Called(loc[c], "RenewLease")
         err == StoreRenewErr(blob, l.leaseID) IN
       IF err # "none"
       THEN RenewFail(c, l, err)
       ELSE RenewSucceed(c, l, "renewed", FALSE)
  /\ UNCHANGED <<container, blob, etagCtr, netDown, lapsed, opsLeft, envLeft>>

(* ------------------------------- Delete --------------------------------- *)
\* mutant of ReleaseErrorTolerated: every release error is passed over
ReleaseErrorToleratedAny(err) == TRUE

\* the release errors ReleaseBlobLease continues after
ReleaseErrorTolerated(err) ==
  err \in {"LeaseNotPresentWithBlobOperation", "LeaseIdMismatchWithBlobOperation"}

\* Delete up to and including leaseClient.ReleaseLease.  With replay the
\* orchestrator repeats a Delete request that has already succeeded.
DeleteStart(c, replay) ==
  /\ pc[c] = "idle" /\ opsLeft > 0
  /\ IF replay
     THEN ~tfstate[c].present /\ last[c].op = "Delete" /\ last[c].ok
     ELSE tfstate[c].present
  /\ opsLeft' = opsLeft - 1
  /\ LET req == IF replay THEN last[c].req ELSE tfstate[c]
         l == Called([StartLoc(c, "Delete", req) EXCEPT
                        !.replay = replay, !.leaseID = req.lease_id], "ReleaseLease")
         kind == StoreReleaseKind(blob, req.lease_id) IN
       \E err \in ReleaseErrCodes(kind) :
         IF err = "none"
         THEN /\ SetBlob(StoreRelease(blob))
              /\ Goto(c, l, "rel_delete", TRUE)
         ELSE /\ UNCHANGED <<blob, lapsed>>
              /\ IF ReleaseErrorTolerated(err)
                 THEN Goto(c, [l EXCEPT !.relErr = err], "rel_delete", FALSE)
                 ELSE Return(c, [l EXCEPT !.relErr = err], FALSE, err, tfstate[c], FALSE)
  /\ UNCHANGED <<container, etagCtr, nextUUID, netDown, envLeft>>

\* mutant of RelDelete: the blob is deleted whatever lease is on it
RelDeleteForce(c) ==
  /\ pc[c] = "rel_delete"
  /\ LET l == Called(loc[c], "DeleteBlob")
         err == IF netDown THEN "Transient"
                ELSE IF ~blob.exists THEN "BlobNotFound" ELSE "none" IN
       IF err # "none"
       THEN /\ Return(c, l, FALSE, err, tfstate[c], FALSE)
            /\ UNCHANGED <<blob, lapsed>>
       ELSE /\ SetBlob(NoBlob)
            /\ Return(c, l, TRUE, "none", NoRecord, TRUE)
  /\ UNCHANGED <<container, etagCtr, nextUUID, netDown, opsLeft, envLeft>>

\* blobClientRef.Delete
RelDelete(c) ==
  /\ pc[c] = "rel_delete"
  /\ LET l == Called(loc[c], "DeleteBlob")
         err == StoreDeleteErr(blob) IN
       IF err # "none"
       THEN /\ Return(c, l, FALSE, err, tfstate[c], FALSE)
            /\ UNCHANGED <<blob, lapsed>>
       ELSE /\ SetBlob(NoBlob)
            /\ Return(c, l, TRUE, "none", NoRecord, TRUE)
  /\ UNCHANGED <<container, etagCtr, nextUUID, netDown, opsLeft, envLeft>>

(* ----------------------------- ImportState ------------------------------ *)
\* the loop of ImportState over the characters of id: i is the position read,
\* start the position after the last '/', parts the segments kept so far
RECURSIVE SplitFrom(_, _, _, _)
SplitFrom(id, i, start, parts) ==
  IF i > Len(id)
  THEN (IF start <= Len(id) THEN Append(parts, SubSeq(id, start, Len(id))) ELSE parts)
  ELSE IF id[i] = "/"
  THEN SplitFrom(id, i + 1, i + 1,
                 IF start < i THEN Append(parts, SubSeq(id, start, i - 1)) ELSE parts)
  ELSE SplitFrom(id, i + 1, start, parts)

\* parts of an import identifier
SplitID(id) == SplitFrom(id, 1, 1, <<>>)

\* len(parts) != 3 is the only check made on an import identifier
ImportAccepts(id) == Len(SplitID(id)) = 3

\* storageAccount, containerName, blobName := parts[0], parts[1], parts[2]
ImportIdentity(id) ==
  [account |-> SplitID(id)[1], container |-> SplitID(id)[2], name |-> SplitID(id)[3]]

\* the blob an identity addresses: blobs of other identities do not exist
BlobAt(id) == IF id = ident THEN blob ELSE NoBlob

\* mutant of ImportData: the lease state is not taken from the store
ImportDataDefaultState(id, etag, leaseState) ==
  [present |-> TRUE, id |-> id, storage_account |-> SplitID(id)[1],
   container_name |-> SplitID(id)[2], blob_name |-> SplitID(id)[3],
   content |-> "", lease_id |-> NoToken,
   blob_url |-> URLOf([account |-> SplitID(id)[1], container |-> SplitID(id)[2],
                       name |-> SplitID(id)[3]]),
   etag |-> etag, lease_state |-> Available]

\* the state ImportState sets
ImportData(id, etag, leaseState) ==
  [present |-> TRUE, id |-> id, storage_account |-> ImportIdentity(id).account,
   container_name |-> ImportIdentity(id).container,
   blob_name |-> ImportIdentity(id).name,
   content |-> "", lease_id |-> NoToken,
   blob_url |-> URLOf(ImportIdentity(id)), etag |-> etag, lease_state |-> leaseState]

\* ImportState up to its BlobExists call
ImportStart(c, id) ==
  /\ pc[c] = "idle" /\ opsLeft > 0
  /\ ~tfstate[c].present
  /\ opsLeft' = opsLeft - 1
  /\ LET l0 == [StartLoc(c, "Import", tfstate[c]) EXCEPT !.importID = id] IN
       IF ~ImportAccepts(id)
       THEN Return(c, l0, FALSE, "UnexpectedImportIdentifier", tfstate[c], FALSE)
       ELSE LET l == Called(l0, "GetProperties")
                err == StoreGetPropertiesErr(BlobAt(ImportIdentity(id)))
                exists == BlobExistsOf(ImportIdentity(id), err) IN
              CASE exists = "error" -> Return(c, l, FALSE, err, tfstate[c], FALSE)
                [] exists = "false" ->
                     Return(c, l, FALSE, "ResourceNotFound", tfstate[c], FALSE)
                [] exists = "true" -> Goto(c, l, "import_state", FALSE)
  /\ UNCHANGED <<container, blob, etagCtr, nextUUID, netDown, lapsed, envLeft>>

\* ImportState from GetBlobLeaseState to its end
ImportState(c) ==
  /\ pc[c] = "import_state"
  /\ LET l == Called(loc[c], "GetProperties")
         b == BlobAt(ImportIdentity(loc[c].importID))
         err == StoreGetPropertiesErr(b) IN
       IF err # "none"
       THEN Return(c, l, FALSE, err, tfstate[c], FALSE)
       ELSE Return(c, [l EXCEPT !.seenState = b.leaseState, !.seenEtag = b.etag],
                   TRUE, "none", ImportData(loc[c].importID, b.etag, b.leaseState),
                   FALSE)
  /\ UNCHANGED <<container, blob, etagCtr, nextUUID, netDown, lapsed, opsLeft, envLeft>>

(* -------------------------- StartLeaseRenewal --------------------------- *)
\* what a step of the renewal loop leaves alone
LoopFrame(mutating) ==
  /\ quiet' = [d \in Ctl |-> IF mutating THEN FALSE ELSE quiet[d]]
  /\ UNCHANGED <<container, etagCtr, nextUUID, netDown, tfstate, pc, loc, last,
                 ident, opsLeft, envLeft>>

\* a remote call made with ctx: it fails once ctx is cancelled
WithContext(err) == IF renewal.cancelled THEN "ContextCanceled" ELSE err

\* mutant of CancelResult: cancellation returns nil
CancelResultNil == "nil"

\* case <-ctx.Done(): return ctx.Err()
CancelResult == "ctx.Err"

\* mutant of TickFailed: the error of RenewBlobLease is dropped
TickFailedGoOn(r, err) == [r EXCEPT !.pc = "select", !.failed = TRUE, !.err = err]

\* RenewBlobLease failed on a tick: the loop returns the wrapped error
TickFailed(r, err) ==
  [r EXCEPT !.pc = "done", !.result = "failed to renew lease during background renewal",
            !.failed = TRUE, !.err = err]

\* the caller starts the loop with the identity and lease id of its state
StartLeaseRenewal(c, dur) ==
  /\ renewal.pc = "off"
  /\ pc[c] = "idle" /\ tfstate[c].present
  /\ renewal' = [NoRenewal EXCEPT !.pc = "select", !.leaseID = tfstate[c].lease_id,
                                  !.cfgDur = dur]
  /\ LoopFrame(FALSE)
  /\ UNCHANGED <<blob, lapsed>>

\* the caller cancels ctx
CancelRenewal ==
  /\ renewal.pc \notin {"off", "done"}
  /\ ~renewal.cancelled
  /\ renewal' = [renewal EXCEPT !.cancelled = TRUE]
  /\ LoopFrame(FALSE)
  /\ UNCHANGED <<blob, lapsed>>

\* select takes the case of ctx.Done()
LoopDone ==
  /\ renewal.pc = "select" /\ renewal.cancelled
  /\ renewal' = [renewal EXCEPT !.pc = "done", !.result = CancelResult]
  /\ LoopFrame(FALSE)
  /\ UNCHANGED <<blob, lapsed>>

\* select takes the case of ticker.C, whether or not ctx is done as well
LoopTick ==
  /\ renewal.pc = "select" /\ renewal.ticks < MaxTicks
  /\ renewal' = [renewal EXCEPT !.pc = "renew_props", !.ticks = @ + 1]
  /\ LoopFrame(FALSE)
  /\ UNCHANGED <<blob, lapsed>>

\* RenewBlobLease of a tick: GetProperties
LoopProps ==
  /\ renewal.pc = "renew_props"
  /\ LET err == WithContext(StoreGetPropertiesErr(blob)) IN
       renewal' = IF err # "none" THEN TickFailed(renewal, err)
                  ELSE [renewal EXCEPT !.pc = RenewCall(blob.leaseState),
                                       !.propsState = blob.leaseState,
                                       !.held = (blob.leaseState = Leased
                                                 /\ blob.leaseId = renewal.leaseID)]
  /\ LoopFrame(FALSE)
  /\ UNCHANGED <<blob, lapsed>>

\* RenewBlobLease of a tick: AcquireLease under the lease id of the loop
LoopAcquire ==
  /\ renewal.pc = "renew_acquire"
  /\ LET err == WithContext(StoreAcquireErr(blob, renewal.leaseID)) IN
       IF err # "none"
       THEN /\ renewal' = TickFailed(renewal, err)
            /\ LoopFrame(FALSE)
            /\ UNCHANGED <<blob, lapsed>>
       ELSE /\ SetBlob(StoreAcquire(blob, renewal.leaseID,
                                     LeaseDurationOf(renewal.cfgDur), "renew"))
            /\ renewal' = [renewal EXCEPT !.pc = "select", !.reacquired = TRUE,
                                          !.acqDur = LeaseDurationOf(renewal.cfgDur)]
            /\ LoopFrame(TRUE)

\* RenewBlobLease of a tick: RenewLease
LoopRenew ==
  /\ renewal.pc = "renew_renew"
  /\ LET err == WithContext(StoreRenewErr(blob, renewal.leaseID)) IN
       renewal' = IF err # "none" THEN TickFailed(renewal, err)
                  ELSE [renewal EXCEPT !.pc = "select"]
  /\ LoopFrame(FALSE)
  /\ UNCHANGED <<blob, lapsed>>

\* a step of the loop itself
LoopStep == LoopDone \/ LoopTick \/ LoopProps \/ LoopAcquire \/ LoopRenew

(* ---------------------------- other parties ----------------------------- *)
EnvStep ==
  /\ envLeft > 0
  /\ envLeft' = envLeft - 1
  /\ quiet' = [d \in Ctl |-> FALSE]
  /\ UNCHANGED <<tfstate, pc, loc, last, opsLeft, ident, renewal>>

\* another client writes the blob
EnvUpload ==
  /\ EnvStep
  /\ ~netDown /\ ~LeaseActive(blob)
  /\ container' = TRUE
  /\ SetBlob(StoreUpload(blob, "other", etagCtr + 1))
  /\ etagCtr' = etagCtr + 1
  /\ UNCHANGED <<nextUUID, netDown>>

\* another client acquires the lease with a token of its own
EnvAcquire(dur) ==
  /\ EnvStep
  /\ StoreAcquireErr(blob, nextUUID) = "none"
  /\ SetBlob(StoreAcquire(blob, nextUUID, dur, "env"))
  /\ nextUUID' = nextUUID + 1
  /\ UNCHANGED <<container, etagCtr, netDown>>

\* the lease is released outside of Terraform
EnvRelease ==
  /\ EnvStep
  /\ ~netDown /\ blob.exists /\ blob.leaseState # Available
  /\ SetBlob(StoreRelease(blob))
  /\ UNCHANGED <<container, etagCtr, nextUUID, netDown>>

\* the lease is broken: at once when infinite, after the break period otherwise
EnvBreak ==
  /\ EnvStep
  /\ ~netDown /\ blob.exists /\ blob.leaseState = Leased
  /\ SetBlob([blob EXCEPT !.leaseState =
                IF blob.leaseDur = InfiniteDuration THEN "broken" ELSE "breaking"])
  /\ UNCHANGED <<container, etagCtr, nextUUID, netDown>>

\* time passes: a break period ends, a finite lease expires
EnvTime ==
  /\ EnvStep
  /\ blob.exists
  /\ \/ blob.leaseState = "breaking"
        /\ SetBlob([blob EXCEPT !.leaseState = "broken"])
     \/ blob.leaseState = Leased /\ blob.leaseDur # InfiniteDuration
        /\ SetBlob([blob EXCEPT !.leaseState = "expired"])
  /\ UNCHANGED <<container, etagCtr, nextUUID, netDown>>

\* the blob is deleted outside of Terraform
EnvDelete ==
  /\ EnvStep
  /\ StoreDeleteErr(blob) = "none"
  /\ SetBlob(NoBlob)
  /\ UNCHANGED <<container, etagCtr, nextUUID, netDown>>

\* the network fails or recovers
EnvNet ==
  /\ EnvStep
  /\ netDown' = ~netDown
  /\ UNCHANGED <<container, blob, etagCtr, nextUUID, lapsed>>

Env ==
  \/ EnvUpload
  \/ \E dur \in {InfiniteDuration, FiniteDuration} : EnvAcquire(dur)
  \/ EnvRelease
  \/ EnvBreak
  \/ EnvTime
  \/ EnvDelete
  \/ EnvNet

(* ---------------------------- specification ----------------------------- *)
Init ==
  /\ container = FALSE
  /\ blob = NoBlob
  /\ etagCtr = 0
  /\ nextUUID = 1
  /\ netDown = FALSE
  /\ lapsed = {}
  /\ tfstate = [c \in Ctl |-> NoRecord]
  /\ pc = [c \in Ctl |-> "idle"]
  /\ loc = [c \in Ctl |-> IdleLoc]
  /\ last = [c \in Ctl |-> IdleLoc]
  /\ quiet = [c \in Ctl |-> TRUE]
  /\ ident \in Identities
  /\ renewal = NoRenewal
  /\ opsLeft = MaxOps
  /\ envLeft = MaxEnv

Handler(c) ==
  \/ \E cfg \in ConfigContents, dur \in ConfigDurations : CreateStart(c, cfg, dur)
  \/ CblContainer(c)
  \/ CblUpload(c)
  \/ CblAcquire(c)
  \/ ReadStart(c)
  \/ ReadState(c)
  \/ \E planContent \in ConfigContents : UpdateStart(c, planContent)
  \/ RenewProps(c)
  \/ RenewAcquire(c)
  \/ RenewRenew(c)
  \/ \E replay \in BOOLEAN : DeleteStart(c, replay)
  \/ RelDelete(c)
  \/ \E id \in ImportIDs : ImportStart(c, id)
  \/ ImportState(c)

Next == (\E c \in SoloCtl : Handler(c)) \/ Env

Spec == Init /\ [][Next]_vars

\* two Terraform runs with a state of their own each manage the same blob
InitDuo ==
  /\ container = FALSE
  /\ blob = NoBlob
  /\ etagCtr = 0
  /\ nextUUID = 1
  /\ netDown = FALSE
  /\ lapsed = {}
  /\ tfstate = [c \in Ctl |-> NoRecord]
  /\ pc = [c \in Ctl |-> "idle"]
  /\ loc = [c \in Ctl |-> IdleLoc]
  /\ last = [c \in Ctl |-> IdleLoc]
  /\ quiet = [c \in Ctl |-> TRUE]
  /\ ident = PlainIdentity
  /\ renewal = NoRenewal
  /\ opsLeft = MaxOpsDuo
  /\ envLeft = 0

NextDuo == \E c \in Ctl : Handler(c)

SpecDuo == InitDuo /\ [][NextDuo]_vars

\* a program creates the lease and keeps it alive with StartLeaseRenewal
InitLoop ==
  /\ container = FALSE
  /\ blob = NoBlob
  /\ etagCtr = 0
  /\ nextUUID = 1
  /\ netDown = FALSE
  /\ lapsed = {}
  /\ tfstate = [c \in Ctl |-> NoRecord]
  /\ pc = [c \in Ctl |-> "idle"]
  /\ loc = [c \in Ctl |-> IdleLoc]
  /\ last = [c \in Ctl |-> IdleLoc]
  /\ quiet = [c \in Ctl |-> TRUE]
  /\ ident \in Identities
  /\ renewal = NoRenewal
  /\ opsLeft = MaxOpsLoop
  /\ envLeft = MaxEnvLoop

CreateHandler(c) ==
  \/ \E cfg \in ConfigContents, dur \in ConfigDurations : CreateStart(c, cfg, dur)
  \/ CblContainer(c)
  \/ CblUpload(c)
  \/ CblAcquire(c)

NextLoop ==
  \/ \E c \in SoloCtl :
       \/ CreateHandler(c)
       \/ \E dur \in ConfigDurations : CreateBlobWithLease(c, dur)
       \/ \E dur \in ConfigDurations : StartLeaseRenewal(c, dur)
  \/ CancelRenewal
  \/ LoopStep
  \/ Env

SpecLoop == InitLoop /\ [][NextLoop]_vars

\* the loop is a goroutine that runs whenever it can
SpecLoopFair == SpecLoop /\ WF_vars(LoopStep)

(* ------------------------------- claims --------------------------------- *)
\* controller c is between handlers and nobody else has acted, nor the
\* network failed, since the handler before its last one returned
JustDone(c, op) ==
  /\ pc[c] = "idle"
  /\ last[c].op = op
  /\ last[c].undisturbed
  /\ quiet[c]

\* the step in which controller c's handler op returns
Returns(c, op) == last'[c].seq # last[c].seq /\ last'[c].op = op

\* C1: Create followed at once by Read, nobody else acting: Read reports
\* lease_state "leased", the state still carries the lease id Create returned,
\* and that lease id holds the lease in the store.
C1_CreateThenRead ==
  \A c \in Ctl :
    (JustDone(c, "Read") /\ last[c].ok /\ last[c].prevOp = "Create" /\ last[c].prevOk)
    => /\ ~last[c].gone
       /\ tfstate[c].present
       /\ tfstate[c].lease_state = Leased
       /\ tfstate[c].lease_id = last[c].req.lease_id
       /\ tfstate[c].lease_id # NoToken
       /\ blob.exists /\ blob.leaseState = Leased
       /\ blob.leaseId = tfstate[c].lease_id

C1_Witness ==
  \E c \in Ctl :
    /\ JustDone(c, "Read") /\ last[c].ok
    /\ last[c].prevOp = "Create" /\ last[c].prevOk
    /\ tfstate[c].lease_state = Leased

\* C2: an Update that saw a lease state other than "leased", whose
\* RenewBlobLease failed and which succeeded, leaves a newly generated lease
\* id, distinct from the one stored before, and lease_state "leased".
C2_FallbackNewToken ==
  \A c \in Ctl :
    (pc[c] = "idle" /\ last[c].op = "Update" /\ last[c].ok /\ last[c].renew = "failed")
    => /\ NeedsRenew(last[c].seenState)
       /\ tfstate[c].lease_id # last[c].req.lease_id
       /\ tfstate[c].lease_id # NoToken
       /\ tfstate[c].lease_id = last[c].leaseID
       /\ last[c].uuids = 1
       /\ tfstate[c].lease_state = Leased

C2_Witness ==
  \E c \in Ctl :
    /\ pc[c] = "idle" /\ last[c].op = "Update" /\ last[c].ok
    /\ last[c].renew = "failed"
    /\ last[c].req.lease_id # NoToken
    /\ tfstate[c].lease_id # last[c].req.lease_id

\* C3: an Update that finds the lease state "leased" keeps the stored lease
\* id, makes no call but the one GetProperties, leaves the store as it is and
\* refreshes etag, lease_state and blob_url from the store; the state it
\* saves is otherwise the plan, which differs from the prior state in the
\* configured content only.
C3_UpdateLeasedNoOp ==
  [][\A c \in Ctl :
       (Returns(c, "Update") /\ last'[c].ok /\ last'[c].seenState = Leased)
       => /\ blob' = blob /\ container' = container
          /\ last'[c].calls = <<"GetProperties">>
          /\ tfstate'[c] = [tfstate[c] EXCEPT !.etag = blob.etag,
                                              !.lease_state = blob.leaseState,
                                              !.blob_url = TheURL,
                                              !.content = last'[c].planContent]
          /\ tfstate'[c].lease_id = last'[c].req.lease_id]_vars

C3_Witness ==
  \E c \in Ctl :
    /\ pc[c] = "idle" /\ last[c].op = "Update" /\ last[c].ok
    /\ last[c].seenState = Leased
    /\ tfstate[c].lease_id = last[c].req.lease_id
    /\ tfstate[c].lease_id # NoToken

RenewCallStep(c) ==
  pc[c] \in {"renew_acquire", "renew_renew"} /\ pc'[c] # pc[c]

ReadStep(c) ==
  \/ loc'[c].op = "Read" /\ loc[c].op # "Read"
  \/ Returns(c, "Read")

\* C6: no step of Read changes the store, whether Read succeeds, removes the
\* resource or fails.
C6_ReadLeavesStore ==
  [][\A c \in Ctl : ReadStep(c) => (blob' = blob /\ container' = container)]_vars

C6_Witness ==
  \E c \in Ctl :
    /\ pc[c] = "idle" /\ last[c].op = "Read" /\ last[c].ok /\ ~last[c].gone
    /\ last[c].seenState # Leased
    /\ last[c].calls = <<"GetProperties", "GetProperties">>

\* C7 as claimed: a Delete repeated with the same identity and lease id after
\* a Delete succeeded, nobody else acting, returns no error.
C7_DeleteIdempotent ==
  \A c \in Ctl :
    (JustDone(c, "Delete") /\ last[c].replay /\ last[c].prevOp = "Delete"
     /\ last[c].prevOk)
    => last[c].ok

\* a release error that names neither an absent lease nor a lease id mismatch
OtherReleaseError(err) ==
  err \notin ({"none"} \cup ReleaseErrCodes("LeaseNotPresent")
                       \cup ReleaseErrCodes("LeaseIdMismatch"))

\* C8: Delete releases before it deletes; when the release fails for another
\* reason than an absent lease or a lease id mismatch, Delete returns an error,
\* never calls the blob delete and leaves the blob in place.
C8_ReleaseBeforeDelete ==
  /\ [](\A c \in Ctl :
          /\ loc[c].op = "Delete" => loc[c].calls = <<"ReleaseLease">>
          /\ last[c].op = "Delete" =>
               /\ last[c].calls \in {<<"ReleaseLease">>, <<"ReleaseLease", "DeleteBlob">>}
               /\ OtherReleaseError(last[c].relErr)
                  => (~last[c].ok /\ last[c].calls = <<"ReleaseLease">>))
  /\ [][\A c \in Ctl :
          (Returns(c, "Delete") /\ last'[c].calls = <<"ReleaseLease">>)
          => (~last'[c].ok /\ blob' = blob /\ tfstate'[c] = tfstate[c])]_vars

C8_Witness ==
  \E c \in Ctl :
    /\ last[c].op = "Delete" /\ ~last[c].ok
    /\ last[c].relErr = "Transient"
    /\ last[c].calls = <<"ReleaseLease">>
    /\ blob.exists /\ blob.leaseId = last[c].req.lease_id

\* C9: Create, then Delete with the lease id Create returned, nobody else
\* acting: Delete returns no error, the lease is released and BlobExists
\* reports false.
C9_CreateThenDelete ==
  \A c \in Ctl :
    (JustDone(c, "Delete") /\ ~last[c].replay /\ last[c].prevOp = "Create"
     /\ last[c].prevOk)
    => /\ last[c].ok
       /\ ~tfstate[c].present
       /\ last[c].relErr = "none"
       /\ last[c].calls = <<"ReleaseLease", "DeleteBlob">>
       /\ last[c].req.lease_id \in lapsed
       /\ BlobExists(StoreGetPropertiesErr(blob)) = "false"

C9_Witness ==
  \E c \in Ctl :
    /\ JustDone(c, "Delete") /\ ~last[c].replay
    /\ last[c].prevOp = "Create" /\ last[c].prevOk
    /\ last[c].ok /\ ~blob.exists

\* C10: a Create whose upload or lease acquisition fails returns an error,
\* saves no state, and makes no further call: no renewal, no second
\* acquisition, no second lease id.
C10_CreateNoFallback ==
  \A c \in Ctl :
    /\ loc[c].op = "Create" => (~tfstate[c].present /\ loc[c].uuids = 1)
    /\ (pc[c] = "idle" /\ last[c].op = "Create" /\ ~last[c].ok)
       => /\ ~tfstate[c].present
          /\ last[c].uuids = 1 /\ ~last[c].fellBack /\ last[c].renew = "none"
          /\ last[c].err # "none"
          /\ last[c].calls \in {<<"CreateContainer">>,
                                <<"CreateContainer", "UploadBuffer">>,
                                <<"CreateContainer", "UploadBuffer", "AcquireLease">>}

C10_Witness ==
  \E c \in Ctl :
    /\ pc[c] = "idle" /\ last[c].op = "Create" /\ ~last[c].ok
    /\ last[c].calls = <<"CreateContainer", "UploadBuffer", "AcquireLease">>
    /\ blob.exists /\ blob.leaseId # last[c].leaseID
    /\ ~tfstate[c].present

\* the step of Read in which BlobExists answers
ExistsStep(c) ==
  /\ pc[c] = "idle"
  /\ \/ loc'[c].op = "Read" /\ pc'[c] = "read_state"
     \/ Returns(c, "Read")

\* C11 as claimed: Read removes the resource from the state exactly when the
\* store reports the blob absent; when the existence check fails for any
\* other reason, Read returns an error and the state is unchanged.
C11_GoneOnlyWhenAbsent ==
  [][\A c \in Ctl :
       ExistsStep(c) =>
         /\ (Returns(c, "Read") /\ last'[c].gone)
              <=> (StoreGetPropertiesErr(blob) = "BlobNotFound")
         /\ StoreGetPropertiesErr(blob) \notin {"none", "BlobNotFound"}
              => /\ Returns(c, "Read") /\ ~last'[c].ok
                 /\ tfstate'[c] = tfstate[c]]_vars

\* an identifier that '/' splits into exactly three segments, none empty
ThreeSegments(id) ==
  /\ Len(id) > 0
  /\ Cardinality({i \in 1..Len(id) : id[i] = "/"}) = 2
  /\ id[1] # "/" /\ id[Len(id)] # "/"
  /\ \A i \in 1..(Len(id) - 1) : ~(id[i] = "/" /\ id[i + 1] = "/")

\* C12 as claimed: Import accepts an identifier only if splitting it on '/'
\* gives exactly three segments, none empty; any other identifier is rejected
\* with a format error before any remote call.
C12_ParserStrict ==
  \A c \in Ctl :
    (pc[c] = "idle" /\ last[c].op = "Import" /\ ~ThreeSegments(last[c].importID))
    => /\ ~last[c].ok
       /\ last[c].err = "UnexpectedImportIdentifier"
       /\ last[c].calls = <<>>

\* the step in which ImportState answers for an identifier it has parsed
ImportExistsStep(c) ==
  /\ pc[c] = "idle"
  /\ \/ loc'[c].op = "Import" /\ pc'[c] = "import_state"
     \/ Returns(c, "Import") /\ last'[c].calls # <<>>

\* the identifier of the Import of c that is starting or has just returned
ImportedID(c) == IF pc'[c] = "idle" THEN last'[c].importID ELSE loc'[c].importID

\* C13: when one controller has created the blob and read it, and another
\* imports it in the same store state, the imported state has the etag, the
\* URL and the lease state Read reports and an empty lease id; an import of a
\* blob that does not exist fails and sets no state.
C13_ImportMatchesRead ==
  /\ [](\A c, d \in Ctl :
          (/\ JustDone(c, "Import") /\ last[c].ok
           /\ JustDone(d, "Read") /\ last[d].ok /\ ~last[d].gone
           /\ last[d].prevOp = "Create" /\ last[d].prevOk)
          => /\ tfstate[c].etag = tfstate[d].etag
             /\ tfstate[c].blob_url = tfstate[d].blob_url
             /\ tfstate[c].lease_state = tfstate[d].lease_state
             /\ tfstate[c].lease_id = NoToken)
  /\ [][\A c \in Ctl :
          (ImportExistsStep(c) /\ ~BlobAt(ImportIdentity(ImportedID(c))).exists)
          => /\ Returns(c, "Import") /\ ~last'[c].ok
             /\ ~tfstate'[c].present]_vars

C13_Witness ==
  \E c, d \in Ctl :
    /\ JustDone(c, "Import") /\ last[c].ok
    /\ JustDone(d, "Read") /\ last[d].ok /\ ~last[d].gone
    /\ last[d].prevOp = "Create" /\ last[d].prevOk
    /\ tfstate[c].lease_state = Leased /\ tfstate[c].etag = blob.etag
    /\ tfstate[d].lease_id # NoToken

\* the error the loop returns for a failed renewal
RenewalError == "failed to renew lease during background renewal"

\* C14 as claimed: a cancelled renewal loop returns no error.
C14_CancelReturnsNil ==
  (renewal.pc = "done" /\ renewal.cancelled) => renewal.result = "nil"

\* C14 as amended: a cancelled renewal loop terminates and returns an error:
\* ctx.Err() when select sees the cancellation, the renewal error wrapping
\* the context's error when a call of a tick sees it; a renewal that fails
\* without cancellation returns the renewal error wrapping the store's error.
C14_CancelReturnsContextError ==
  /\ []((renewal.pc = "done" /\ renewal.cancelled)
        => \/ renewal.result = "ctx.Err"
           \/ renewal.result = RenewalError /\ renewal.err = "ContextCanceled")
  /\ []((renewal.pc = "done" /\ ~renewal.cancelled)
        => renewal.result = RenewalError /\ renewal.err # "ContextCanceled")
  /\ (renewal.cancelled ~> renewal.pc = "done")

C14_Witness ==
  /\ renewal.pc = "done" /\ renewal.cancelled
  /\ renewal.result = "ctx.Err"
  /\ renewal.ticks > 0 /\ ~renewal.failed

DocumentedDurations == {InfiniteDuration} \cup (15..60)

\* C16 as claimed: Create passes the configured lease_duration to
\* AcquireLease.
C16_CreateUsesConfiguredDuration ==
  \A c \in Ctl :
    (pc[c] = "idle" /\ last[c].op = "Create" /\ last[c].ok
     /\ last[c].dur \in DocumentedDurations)
    => (last[c].acqDur = last[c].dur /\ blob.leaseDur = last[c].dur)

\* C17: when Read has recorded a lease state of available, expired or broken
\* and Update follows at once, nobody else acting, the plan modifier marks
\* lease_state for update and Update acquires the lease again: it succeeds,
\* the store reports "leased" under the lease id of the state, and the state
\* says "leased".
C17_SelfHealing ==
  \A c \in Ctl :
    (/\ JustDone(c, "Update") /\ last[c].prevOp = "Read" /\ last[c].prevOk
     /\ last[c].req.lease_state \in {Available, "expired", "broken"})
    => /\ last[c].planUnknown
       /\ last[c].ok
       /\ blob.exists /\ blob.leaseState = Leased
       /\ blob.leaseId = tfstate[c].lease_id
       /\ tfstate[c].lease_state = Leased

C17_Witness ==
  \E c \in Ctl :
    /\ JustDone(c, "Update") /\ last[c].prevOp = "Read" /\ last[c].prevOk
    /\ last[c].req.lease_state = Available
    /\ last[c].req.lease_id # NoToken
    /\ last[c].ok /\ last[c].renew = "acquired"
    /\ blob.leaseState = Leased

\* the handler of c that returned last left a state with etag, URL and lease
\* state set
ComputedSet(c) ==
  /\ tfstate[c].etag # 0
  /\ tfstate[c].blob_url # <<>>
  /\ tfstate[c].lease_state # ""

\* the state c had when its last handler was called: the request's state,
\* but none for a Delete repeated after the state was removed
StateBefore(c) == IF last[c].replay THEN NoRecord ELSE last[c].req

\* C18 as claimed: a handler that returns an error leaves the state as it was
\* before the call; one that succeeds leaves lease id, etag, URL and lease
\* state all set.
C18_NoPartialReturn ==
  \A c \in Ctl :
    (pc[c] = "idle" /\ last[c].op # "none")
    => /\ ~last[c].ok => tfstate[c] = StateBefore(c)
       /\ (last[c].ok /\ tfstate[c].present)
            => (ComputedSet(c) /\ tfstate[c].lease_id # NoToken)

\* C18 as amended: a handler that returns an error leaves the state as it was
\* before the call; one that succeeds and leaves a state leaves etag, URL and
\* lease state set, and the lease id set as well except that Import leaves it
\* empty, and Read, and an Update that finds the lease still "leased", carry
\* an empty lease id over.
C18_NoPartialReturnButToken ==
  \A c \in Ctl :
    (pc[c] = "idle" /\ last[c].op # "none")
    => /\ ~last[c].ok => tfstate[c] = StateBefore(c)
       /\ (last[c].ok /\ tfstate[c].present)
            => /\ ComputedSet(c)
               /\ tfstate[c].lease_id = NoToken
                    => \/ last[c].op = "Import"
                       \/ last[c].op = "Read" /\ last[c].req.lease_id = NoToken
                       \/ /\ last[c].op = "Update"
                          /\ last[c].req.lease_id = NoToken
                          /\ last[c].seenState = Leased
                          /\ last[c].renew = "none"
               /\ last[c].op = "Import" => tfstate[c].lease_id = NoToken
               /\ last[c].op = "Create" => tfstate[c].lease_id = last[c].leaseID

C18_Witness ==
  \E c \in Ctl :
    /\ pc[c] = "idle" /\ last[c].op = "Update" /\ last[c].ok
    /\ last[c].prevOp = "Import" /\ last[c].prevOk
    /\ tfstate[c].present /\ tfstate[c].lease_id = NoToken
    /\ tfstate[c].lease_state = Leased /\ tfstate[c].etag # 0

\* C19 as claimed: the first successful Update after Import, nobody else
\* acting, leaves a state with a lease id that is not empty and that holds the
\* lease in the store.
C19_UpdateAfterImportClaims ==
  \A c \in Ctl :
    (JustDone(c, "Update") /\ last[c].ok /\ last[c].prevOp = "Import" /\ last[c].prevOk)
    => /\ tfstate[c].lease_id # NoToken
       /\ blob.exists /\ blob.leaseState = Leased
       /\ blob.leaseId = tfstate[c].lease_id

\* C20 as claimed: when a successful Create or Update has left a state that
\* says "leased" with a lease id T, and nobody has acted on the store since it
\* returned, the lease in the store is held by T, whatever the other
\* controller did while the handler ran.
C20_RecordedLeaseIsHeld ==
  \A c \in Ctl :
    (/\ pc[c] = "idle" /\ last[c].op \in {"Create", "Update"} /\ last[c].ok
     /\ quiet[c]
     /\ tfstate[c].present /\ tfstate[c].lease_state = Leased
     /\ tfstate[c].lease_id # NoToken)
    => /\ blob.exists /\ blob.leaseState = Leased
       /\ blob.leaseId = tfstate[c].lease_id

\* the step replaces the payload of the blob
PayloadReplaced ==
  /\ blob.exists /\ blob'.exists
  /\ blob'.content # blob.content \/ blob'.etag # blob.etag

\* C21: with two controllers on the same blob, no step replaces the payload
\* of the blob while the store's lease on it is held: an upload of Create or
\* of Update's fallback made after the other controller acquired the lease is
\* refused and leaves payload, etag and lease as they were.
C21_NoOverwriteUnderLease ==
  [][/\ PayloadReplaced => blob.leaseState # Leased
     /\ \A c \in Ctl :
          (pc[c] = "cbl_upload" /\ pc'[c] # pc[c]
           /\ blob.exists /\ blob.leaseState = Leased)
          => (blob' = blob /\ Returns(c, last'[c].op) /\ ~last'[c].ok)]_vars

C21_Witness ==
  \E c, d \in Ctl :
    /\ pc[c] = "idle" /\ last[c].op = "Create" /\ ~last[c].ok
    /\ last[c].err = "LeaseIdMissing"
    /\ pc[d] = "idle" /\ last[d].op = "Create" /\ last[d].ok
    /\ last[c].seq < last[d].seq
    /\ blob.leaseState = Leased /\ blob.leaseId = tfstate[d].lease_id
    /\ blob.content = last[d].content /\ last[c].content # last[d].content

\* C22: no step removes the blob while the store's lease on it is held; when
\* Delete has passed over a failed release and the lease is held under
\* another lease id than the one of its state, its blob delete is refused:
\* the blob and its lease stay as they are, Delete returns an error and keeps
\* the state.
C22_DeleteSparesOtherHolder ==
  [][/\ (blob.exists /\ ~blob'.exists) => blob.leaseState # Leased
     /\ \A c \in Ctl :
          (/\ pc[c] = "rel_delete" /\ pc'[c] # pc[c]
           /\ blob.exists /\ blob.leaseState = Leased
           /\ blob.leaseId # loc[c].leaseID)
          => /\ blob' = blob
             /\ Returns(c, "Delete") /\ ~last'[c].ok
             /\ tfstate'[c] = tfstate[c]]_vars

C22_Witness ==
  \E c \in Ctl :
    /\ pc[c] = "idle" /\ last[c].op = "Delete" /\ ~last[c].ok
    /\ last[c].relErr = "LeaseIdMismatchWithBlobOperation"
    /\ last[c].calls = <<"ReleaseLease", "DeleteBlob">>
    /\ last[c].err = "LeaseIdMissing"
    /\ blob.exists /\ blob.leaseState = Leased
    /\ blob.leaseId # last[c].leaseID
    /\ tfstate[c].present

\* both controllers have run Create, and nothing else has run
TwoCreates ==
  /\ \A c \in Ctl : pc[c] = "idle" /\ last[c].op = "Create" /\ last[c].prevOp = "none"
  /\ opsLeft = MaxOpsDuo - 2

\* C23: when the two controllers have each run Create on the same blob, in
\* any interleaving of their remote calls, one Create has succeeded and the
\* other has returned an error and left no state; the two used different
\* lease ids and the lease is held under the one of the Create that succeeded.
C23_OneCreateWins ==
  TwoCreates
  => /\ \E c \in Ctl :
          /\ last[c].ok /\ tfstate[c].present
          /\ blob.leaseState = Leased /\ blob.leaseId = tfstate[c].lease_id
          /\ \A d \in Ctl \ {c} : ~last[d].ok /\ ~tfstate[d].present
     /\ \A c, d \in Ctl : c # d => last[c].leaseID # last[d].leaseID

C23_Witness ==
  /\ TwoCreates
  /\ \E c, d \in Ctl :
       /\ last[c].ok /\ ~last[d].ok
       /\ last[d].err = "LeaseAlreadyPresent"
       /\ last[d].calls = <<"CreateContainer", "UploadBuffer", "AcquireLease">>
       /\ blob.content = last[d].content /\ last[c].content # last[d].content

\* C24: a Read that finds the blob sets lease_state and etag of the state to
\* what the store reports at its GetBlobLeaseState call, whatever the lease
\* state, leaves every other attribute of the state as it was, and makes no
\* call but the two GetProperties: the store is left as it is.
C24_ReadRefreshesOnly ==
  [][\A c \in Ctl :
       (Returns(c, "Read") /\ last'[c].ok /\ ~last'[c].gone)
       => /\ tfstate'[c] = [tfstate[c] EXCEPT !.etag = blob.etag,
                                              !.lease_state = blob.leaseState]
          /\ last'[c].calls = <<"GetProperties", "GetProperties">>
          /\ blob' = blob /\ container' = container]_vars

C24_Witness ==
  \E c \in Ctl :
    /\ pc[c] = "idle" /\ last[c].op = "Read" /\ last[c].ok /\ ~last[c].gone
    /\ last[c].seenState = "broken" /\ tfstate[c].lease_state = "broken"
    /\ last[c].req.lease_state = Leased
    /\ tfstate[c].lease_id # NoToken /\ tfstate[c].content = "x"
    /\ tfstate[c].etag # last[c].req.etag
    /\ blob.leaseState = "broken"

\* C25: whether a record needs Update is decided by its stored lease state
\* alone: the plan modifier marks lease_state unknown exactly when the stored
\* value is not the literal "leased", and marks nothing on Create, where no
\* state exists; an unmarked record reaches Update only through a changed
\* content.  Update compares the state the store reports in the same way:
\* "leased" ends it after its one GetProperties, every other reported value
\* (available, expired, breaking, broken) goes on to RenewBlobLease.
C25_NeedsReconcile ==
  \A c \in Ctl :
    /\ (pc[c] = "idle" /\ last[c].op = "Create") => ~last[c].planUnknown
    /\ (pc[c] = "idle" /\ last[c].op = "Update")
       => /\ last[c].planUnknown <=> (last[c].req.lease_state # "leased")
          /\ ~last[c].planUnknown => last[c].planContent # last[c].req.content
          /\ (Len(last[c].calls) > 1) <=> (last[c].seenState \notin {"", "leased"})
          /\ last[c].seenState = "leased"
             => /\ last[c].ok /\ last[c].renew = "none" /\ ~last[c].fellBack
                /\ tfstate[c].lease_id = last[c].req.lease_id

C25_Witness ==
  \E c \in Ctl :
    /\ pc[c] = "idle" /\ last[c].op = "Update"
    /\ last[c].planUnknown /\ last[c].req.lease_state = "broken"
    /\ last[c].seenState = "expired"
    /\ Len(last[c].calls) > 1

\* the step in which the upload of Update's fallback succeeds
FallbackUpload(c) ==
  /\ pc[c] = "cbl_upload" /\ loc[c].op = "Update"
  /\ pc'[c] = "cbl_acquire"

\* C26 as claimed: the fallback of Update writes the default content whatever
\* content is configured.
C26_FallbackWritesDefault ==
  [][\A c \in Ctl : FallbackUpload(c) => blob'.content = DefaultContent]_vars

\* C26 as amended: the fallback of Update writes the content of the plan,
\* and the default content only when the plan sets none.
C26_FallbackWritesPlanned ==
  [][\A c \in Ctl :
       FallbackUpload(c)
       => /\ blob'.exists /\ blob'.etag # blob.etag
          /\ blob'.content = (IF loc[c].planContent = "null" THEN DefaultContent
                              ELSE loc[c].planContent)]_vars

C26_Witness ==
  \E c \in Ctl :
    /\ pc[c] = "idle" /\ last[c].op = "Update" /\ last[c].ok /\ last[c].fellBack
    /\ last[c].planContent = "x" /\ last[c].req.content = "null"
    /\ blob.exists /\ blob.content = "x" /\ tfstate[c].content = "x"

\* s is an initial part of t
IsPrefix(s, t) == Len(s) <= Len(t) /\ \A i \in 1..Len(s) : s[i] = t[i]

\* the remote calls of CreateBlobWithLease, in order
CblCalls == <<"CreateContainer", "UploadBuffer", "AcquireLease">>

\* the remote calls an invocation with locals l may have made so far
CallsAllowed(l) ==
  CASE l.op = "Create" -> IsPrefix(l.calls, CblCalls)
    [] l.op \in {"Read", "Import"} -> IsPrefix(l.calls, <<"GetProperties", "GetProperties">>)
    [] l.op = "Delete" -> IsPrefix(l.calls, <<"ReleaseLease", "DeleteBlob">>)
    [] l.op = "Update" ->
         IF ~l.fellBack
         THEN \E x \in {"AcquireLease", "RenewLease"} :
                IsPrefix(l.calls, <<"GetProperties", "GetProperties", x>>)
         ELSE \E head \in {<<"GetProperties", "GetProperties">>,
                           <<"GetProperties", "GetProperties", "AcquireLease">>,
                           <<"GetProperties", "GetProperties", "RenewLease">>} :
                /\ IsPrefix(head, l.calls)
                /\ IsPrefix(SubSeq(l.calls, Len(head) + 1, Len(l.calls)), CblCalls)
    [] OTHER -> l.calls = <<>>

\* C27: every invocation makes its remote calls in one fixed order, at most
\* three for Create, two for Read, Delete and Import and six for Update, and
\* none twice with the same arguments after a failure: the second GetProperties
\* of Read, Import and Update follows a first one that succeeded, and the one
\* second attempt is the fallback of Update, entered once after RenewBlobLease
\* failed, whose AcquireLease carries a lease id other than the stored one.
C27_NoRetry ==
  [][\A c \in Ctl :
       /\ CallsAllowed(loc'[c]) /\ CallsAllowed(last'[c])
       /\ Len(loc'[c].calls) <= 6 /\ Len(last'[c].calls) <= 6
       /\ (pc[c] = "idle" /\ pc'[c] \in {"read_state", "import_state", "renew_props"})
          => StoreGetPropertiesErr(blob) = "none"
       /\ (pc[c] # "idle" /\ pc'[c] # pc[c] /\ pc'[c] # "idle")
          => /\ loc'[c].seq = loc[c].seq
             /\ Len(loc'[c].calls) = Len(loc[c].calls) + 1
       /\ (~loc[c].fellBack /\ loc'[c].fellBack)
          => /\ pc[c] \in {"renew_props", "renew_acquire", "renew_renew"}
             /\ pc'[c] = "cbl_container"
             /\ loc'[c].err # "none"
             /\ loc'[c].leaseID # loc[c].leaseID
             /\ loc'[c].leaseID # loc[c].req.lease_id
       /\ (loc[c].fellBack /\ pc'[c] # "idle") => loc'[c].fellBack
                                                  /\ loc'[c].leaseID = loc[c].leaseID]_vars

C27_Witness ==
  \E c \in Ctl :
    /\ pc[c] = "idle" /\ last[c].op = "Update" /\ last[c].ok /\ last[c].fellBack
    /\ last[c].calls = <<"GetProperties", "GetProperties", "AcquireLease",
                         "CreateContainer", "UploadBuffer", "AcquireLease">>
    /\ last[c].leaseID # last[c].req.lease_id
    /\ blob.leaseId = last[c].leaseID

\* the id made of the identity components a state carries
RecordID(rec) ==
  IDOf([account |-> rec.storage_account, container |-> rec.container_name,
        name |-> rec.blob_name])

\* C28 as claimed: the id of every state, set by Create or by ImportState, is
\* account "/" container "/" name of the components the state carries, and
\* the id Create sets is accepted by the import parser and parses back to the
\* identity Create was called with.
C28_IdIsIdentity ==
  \A c \in Ctl :
    /\ tfstate[c].present => tfstate[c].id = RecordID(tfstate[c])
    /\ (pc[c] = "idle" /\ last[c].op = "Create" /\ last[c].ok)
       => /\ tfstate[c].id = IDOf(ident)
          /\ ImportAccepts(tfstate[c].id)
          /\ ImportIdentity(tfstate[c].id) = ident

\* C29: the AcquireLease of CreateBlobWithLease and the AcquireLease of
\* RenewBlobLease pass the store a duration of -1 when config.LeaseDuration
\* is 0 and config.LeaseDuration itself when it is not.
C29_AcquireDuration ==
  [][/\ \A c \in Ctl :
          (pc[c] = "cbl_acquire" /\ pc'[c] # pc[c] /\ blob' # blob)
          => /\ blob'.leaseState = Leased /\ blob'.leaseId = loc[c].leaseID
             /\ loc[c].cfgDur = 0 => blob'.leaseDur = -1
             /\ loc[c].cfgDur # 0 => blob'.leaseDur = loc[c].cfgDur
     /\ (renewal.pc = "renew_acquire" /\ renewal'.pc # renewal.pc /\ blob' # blob)
        => /\ blob'.leaseState = Leased /\ blob'.leaseId = renewal.leaseID
           /\ renewal.cfgDur = 0 => blob'.leaseDur = -1
           /\ renewal.cfgDur # 0 => blob'.leaseDur = renewal.cfgDur]_vars

C29_Witness ==
  \E c \in Ctl :
    /\ pc[c] = "idle" /\ last[c].op = "Create" /\ last[c].ok
    /\ last[c].cfgDur = 0 /\ last[c].acqDur = InfiniteDuration
    /\ renewal.reacquired /\ renewal.cfgDur = FiniteDuration
    /\ blob.exists /\ blob.leaseState = Leased /\ blob.via = "renew"
    /\ blob.leaseDur = FiniteDuration /\ blob.leaseId = tfstate[c].lease_id

====
